---- MODULE Spec2Model ----
(***************************************************************************)
(* Walk-forward position simulator of coingecko_api/position_simulator.py *)
(* (PositionSimulator.simulate_position).  Python floats are modelled as  *)
(* exact rationals [n, d] in lowest terms; a timestamp is the index of    *)
(* its sample in price_data; Python's None is the empty sequence and a    *)
(* present value v is <<v>>.  simulate_all_positions runs the simulator   *)
(* over a list of signals and aggregates the outcomes.                    *)
(***************************************************************************)
EXTENDS Integers, Sequences, FiniteSets, TLC

\* ---------------------------------------------------------------- bounds
MaxTP == 2
MaxSamples == 2
MaxBatch == 2
MaxLeverage == 10
MaxLimit == 45

\* ------------------------------------------------- rational arithmetic
Abs(x) == IF x < 0 THEN -x ELSE x

RECURSIVE GCD(_, _)
GCD(a, b) == IF b = 0 THEN a ELSE GCD(b, a % b)

Norm(n, d) ==
    LET g == GCD(Abs(n), Abs(d))
        s == IF d < 0 THEN -1 ELSE 1
    IN  [n |-> (s * n) \div g, d |-> (s * d) \div g]

R(i) == [n |-> i, d |-> 1]
RAdd(a, b) == Norm(a.n * b.d + b.n * a.d, a.d * b.d)
RSub(a, b) == Norm(a.n * b.d - b.n * a.d, a.d * b.d)
RMul(a, b) == Norm(a.n * b.n, a.d * b.d)
RDiv(a, b) == Norm(a.n * b.d, a.d * b.n)
RLe(a, b) == a.n * b.d <= b.n * a.d
RLt(a, b) == a.n * b.d < b.n * a.d
RMin(a, b) == IF RLe(a, b) THEN a ELSE b
RMax(a, b) == IF RLe(a, b) THEN b ELSE a
Zero == R(0)

\* ------------------------------------------------------ program constants
initial_capital == 100
CloseThreshold == [n |-> 1, d |-> 1000]
mock_mapping == {"BTC"}
LiquidationLoss == [n |-> 9, d |-> 10]

\* ------------------------------------------------------------- inputs
None == <<>>
Some(x) == <<x>>
Truthy(o) == o # None /\ o[1] # 0

Prices == {30000, 60000, 90000}
Sentiments == {"long", "short", "neutral"}
Tickers == {"BTC", "XYZ"}
Leverages ==
    {[kind |-> "none", val |-> 0], [kind |-> "text", val |-> 0]}
    \cup {[kind |-> "num", val |-> v] : v \in {-1, 0, 2}}
EntryPrices == {None, Some(60000)}
StopLosses == {None} \cup {Some(p) : p \in Prices}
SeqsUpTo(S, m) == UNION {[1..l -> S] : l \in 0..m}
Signals ==
    [ticker : Tickers, sentiment : Sentiments, leverage : Leverages,
     entry_price : EntryPrices,
     take_profits : SeqsUpTo(Prices, MaxTP),
     stop_loss : StopLosses]
PriceSeries == SeqsUpTo(Prices, MaxSamples)

\* long signals with the stop-loss below and the take-profits above the entry
\* price, and the price series of a market that can rise above every level
RisingSignals ==
    [ticker : {"BTC"}, sentiment : {"long"}, leverage : Leverages,
     entry_price : {Some(60000)},
     take_profits : SeqsUpTo({90000, 120000}, MaxTP),
     stop_loss : {Some(30000)}]
RisingSeries == SeqsUpTo({60000, 90000, 120000, 150000}, MaxSamples) \ {<<>>}

\* -------------------------------------------------------------- state
VARIABLES
    pc, position_data, price_data, idx,
    effective_entry_price, leverage_multiplier, position_size,
    max_capital, min_capital, remaining_position_size,
    realized_pnl, unrealized_pnl, take_profits_hit, tp_percentages,
    exit_info, result,
    bpc, tweets_analysis, position_index, simulation_results, price_history,
    total_capital, batch_total_pnl, summary_result,
    solo, parked,
    liq, liq_prev,
    manager, simulator,
    pipe

vars == <<pc, position_data, price_data, idx,
          effective_entry_price, leverage_multiplier, position_size,
          max_capital, min_capital, remaining_position_size,
          realized_pnl, unrealized_pnl, take_profits_hit, tp_percentages,
          exit_info, result,
          bpc, tweets_analysis, position_index, simulation_results, price_history,
          total_capital, batch_total_pnl, summary_result,
          solo, parked,
          liq, liq_prev,
          manager, simulator,
          pipe>>

\* the state of simulate_all_positions
batch == <<bpc, tweets_analysis, position_index, simulation_results, price_history,
           total_capital, batch_total_pnl, summary_result>>

\* the frames of other simulate_position calls
conc == <<solo, parked>>

\* the current and the previous call of calculate_liquidation_price
calc == <<liq, liq_prev>>

\* the CryptoAPIManager and its call of a simulator
mgr == <<manager, simulator>>

\* what neither simulate_position nor simulate_all_positions can reach
others == <<conc, calc, mgr, pipe>>

\* the state of simulate_position
simulation == <<pc, position_data, price_data, idx,
                effective_entry_price, leverage_multiplier, position_size,
                max_capital, min_capital, remaining_position_size,
                realized_pnl, unrealized_pnl, take_profits_hit, tp_percentages,
                exit_info, result>>

locals == <<effective_entry_price, leverage_multiplier, position_size,
            max_capital, min_capital, remaining_position_size,
            realized_pnl, unrealized_pnl, take_profits_hit, tp_percentages,
            exit_info>>

NoSignal ==
    [ticker |-> "", sentiment |-> "neutral",
     leverage |-> [kind |-> "none", val |-> 0],
     entry_price |-> None, take_profits |-> <<>>, stop_loss |-> None]

NoExit ==
    [fully_closed |-> FALSE, exit_price |-> None, exit_reason |-> "None",
     exit_time |-> None, partial_exits |-> <<>>]

NoResult ==
    [status |-> "none", error |-> "", ticker |-> "", sentiment |-> "",
     leverage |-> Zero, entry_price |-> Zero,
     exit_price |-> None, exit_reason |-> "None", exit_time |-> None,
     final_capital |-> Zero, realized_pnl |-> Zero, unrealized_pnl |-> Zero,
     total_pnl |-> None, roi_percent |-> Zero,
     max_capital |-> Zero, min_capital |-> Zero,
     max_drawdown_percent |-> Zero, price_points |-> 0,
     fully_closed |-> FALSE, remaining_position_size |-> Zero,
     position_closed_percent |-> Zero, partial_exits |-> <<>>]

ErrorResult(msg, t) == [NoResult EXCEPT !.status = "error", !.error = msg, !.ticker = t]

NoSummary ==
    [status |-> "none", error |-> "", total_positions |-> None,
     total_capital |-> Zero, total_pnl |-> Zero, roi_percent |-> Zero,
     profitable_positions |-> 0, losing_positions |-> 0, win_rate |-> Zero,
     average_roi |-> Zero, average_drawdown |-> Zero,
     best_trade |-> None, worst_trade |-> None, positions |-> <<>>]

\* the locals of a call that has not started
IdleFrame ==
    [pc |-> "idle", position_data |-> NoSignal, price_data |-> <<>>, idx |-> 1,
     effective_entry_price |-> Zero, leverage_multiplier |-> Zero,
     position_size |-> Zero, max_capital |-> Zero, min_capital |-> Zero,
     remaining_position_size |-> Zero, realized_pnl |-> Zero,
     unrealized_pnl |-> Zero, take_profits_hit |-> <<>>,
     tp_percentages |-> <<>>, exit_info |-> NoExit, result |-> NoResult]

NoLiq ==
    [status |-> "none", entry_price |-> Zero, position_type |-> "",
     leverage |-> Zero, value |-> None]

NoManager == [status |-> "none", primary_api |-> "", mock_mode |-> FALSE]

NoOut == [status |-> "none", capital |-> 0, simulation_hours |-> 0, api_source |-> ""]

IdleSimulator ==
    [pc |-> "idle", api_provider |-> "", entry_price |-> None, requested |-> 0,
     capital |-> 0, simulation_hours |-> 0, out |-> NoOut]

IdlePipeline ==
    [pc |-> "idle", user |-> "", resolved |-> "", limit |-> 0,
     collected |-> <<>>, cursor |-> None, batches |-> 0, processed |-> None]

NoSolo ==
    [status |-> "none", position_data |-> NoSignal, price_data |-> <<>>,
     result |-> NoResult]

Init ==
    /\ pc = "idle"
    /\ position_data = NoSignal
    /\ price_data = <<>>
    /\ idx = 1
    /\ effective_entry_price = Zero
    /\ leverage_multiplier = Zero
    /\ position_size = Zero
    /\ max_capital = Zero
    /\ min_capital = Zero
    /\ remaining_position_size = Zero
    /\ realized_pnl = Zero
    /\ unrealized_pnl = Zero
    /\ take_profits_hit = <<>>
    /\ tp_percentages = <<>>
    /\ exit_info = NoExit
    /\ result = NoResult
    /\ bpc = "none"
    /\ tweets_analysis = <<>>
    /\ position_index = 1
    /\ simulation_results = <<>>
    /\ price_history = <<>>
    /\ total_capital = Zero
    /\ batch_total_pnl = Zero
    /\ summary_result = NoSummary
    /\ solo = NoSolo
    /\ parked = IdleFrame
    /\ liq = NoLiq
    /\ liq_prev = NoLiq
    /\ manager = NoManager
    /\ simulator = IdleSimulator
    /\ pipe = IdlePipeline

\* ------------------------------------------------------------ prologue
get_coin_id_from_symbol(symbol) == IF symbol \in mock_mapping THEN Some(symbol) ELSE None

\* float(leverage) if leverage != "none" else 1.0; ValueError/TypeError -> 1.0
ConvertLeverage(leverage) ==
    IF leverage.kind = "num" THEN R(leverage.val) ELSE R(1)

EffectiveEntryPrice(entry_price, series) ==
    IF Truthy(entry_price) THEN R(entry_price[1]) ELSE R(series[1])

PositionSize(lev, eep) == RDiv(RMul(R(initial_capital), lev), eep)

TpPercentages(take_profits) ==
    IF take_profits # <<>>
    THEN [i \in 1..Len(take_profits) |-> RDiv(R(1), R(Len(take_profits)))]
    ELSE <<>>

\* the emptiness test left out: price_data[0] on an empty list
NoPriceDataUnguarded(t) == [NoResult EXCEPT !.status = "raised", !.error = "IndexError"]

NoPriceDataResult(t) == ErrorResult("Donnees de prix non disponibles", t)

CallWith(signals) ==
    /\ pc = "idle"
    /\ \E pd \in signals : position_data' = pd
    /\ pc' = "called"
    /\ UNCHANGED <<price_data, idx, locals, result, batch, others>>

Call == CallWith(Signals)

InvalidSentiment ==
    /\ pc = "called"
    /\ position_data.sentiment \notin {"long", "short"}
    /\ result' = ErrorResult("Sentiment invalide", position_data.ticker)
    /\ pc' = "done"
    /\ UNCHANGED <<position_data, price_data, idx, locals, batch, others>>

CoinNotFound ==
    /\ pc = "called"
    /\ position_data.sentiment \in {"long", "short"}
    /\ get_coin_id_from_symbol(position_data.ticker) = None
    /\ result' = ErrorResult("Coin ID non trouve", position_data.ticker)
    /\ pc' = "done"
    /\ UNCHANGED <<position_data, price_data, idx, locals, batch, others>>

NoPriceData ==
    /\ pc = "called"
    /\ position_data.sentiment \in {"long", "short"}
    /\ get_coin_id_from_symbol(position_data.ticker) # None
    /\ price_data' = <<>>
    /\ result' = NoPriceDataResult(position_data.ticker)
    /\ pc' = "done"
    /\ UNCHANGED <<position_data, idx, locals, batch, others>>

OpenPositionWith(fetched) ==
    /\ pc = "called"
    /\ position_data.sentiment \in {"long", "short"}
    /\ get_coin_id_from_symbol(position_data.ticker) # None
    /\ \E series \in fetched :
         /\ price_data' = series
         /\ LET eep == EffectiveEntryPrice(position_data.entry_price, series)
                lev == ConvertLeverage(position_data.leverage)
                size == PositionSize(lev, eep)
            IN  /\ effective_entry_price' = eep
                /\ leverage_multiplier' = lev
                /\ position_size' = size
                /\ remaining_position_size' = size
    /\ max_capital' = R(initial_capital)
    /\ min_capital' = R(initial_capital)
    /\ realized_pnl' = Zero
    /\ unrealized_pnl' = Zero
    /\ take_profits_hit' = <<>>
    /\ tp_percentages' = TpPercentages(position_data.take_profits)
    /\ exit_info' = NoExit
    /\ idx' = 1
    /\ pc' = "walk"
    /\ UNCHANGED <<position_data, result, batch, others>>

OpenPosition == OpenPositionWith(PriceSeries \ {<<>>})

\* ----------------------------------------------------------- the walk
current_price == price_data[idx]
current_time == idx

\* the short branch computed as the long one
DirectionalPnlLongOnly(sentiment, x, entry, size) == RMul(RSub(x, entry), size)

\* (x - entry) * size for a long, (entry - x) * size for a short
DirectionalPnl(sentiment, x, entry, size) ==
    IF sentiment = "long"
    THEN RMul(RSub(x, entry), size)
    ELSE RMul(RSub(entry, x), size)

StopLossCondition(sentiment, price, stop_loss) ==
    \/ sentiment = "long" /\ price <= stop_loss
    \/ sentiment = "short" /\ price >= stop_loss

StopLossTriggered ==
    /\ Truthy(position_data.stop_loss)
    /\ RLt(Zero, remaining_position_size)
    /\ StopLossCondition(position_data.sentiment, current_price,
                         position_data.stop_loss[1])

\* the trigger test left out: every level not yet hit exits at every sample
TpConditionAlways(sentiment, price, tp) == TRUE

TpCondition(sentiment, price, tp) ==
    \/ sentiment = "long" /\ price >= tp
    \/ sentiment = "short" /\ price <= tp

InSeq(x, s) == \E j \in 1..Len(s) : s[j] = x

\* the level never recorded as hit
TpNeverHit(tp, hit) == FALSE

TpAlreadyHit(tp, hit) == InSeq(tp, hit)

\* the exit sized against what remains instead of the original size
ExitSizeOfRemaining(size, percentage, remaining) == RMin(RMul(remaining, percentage), remaining)

ExitSize(size, percentage, remaining) == RMin(RMul(size, percentage), remaining)

PositionClosed(remaining) == RLe(remaining, CloseThreshold)

\* the for-loop over take_profits of one price point, from index i on
RECURSIVE TakeProfitLoop(_, _)
TakeProfitLoop(i, acc) ==
    IF i > Len(position_data.take_profits) THEN acc
    ELSE
      LET tp == position_data.take_profits[i] IN
      IF TpAlreadyHit(tp, acc.hit) THEN TakeProfitLoop(i + 1, acc)
      ELSE IF ~TpCondition(position_data.sentiment, current_price, tp)
      THEN TakeProfitLoop(i + 1, acc)
      ELSE
        LET exit_percentage == tp_percentages[i]
            exit_size == ExitSize(position_size, exit_percentage, acc.remaining)
            partial_pnl == DirectionalPnl(position_data.sentiment, R(tp),
                                          effective_entry_price, exit_size)
            remaining == RSub(acc.remaining, exit_size)
            exits == Append(acc.exits,
                       [tp_level |-> tp, exit_price |-> tp,
                        exit_percentage |-> exit_percentage,
                        exit_size |-> exit_size, pnl |-> partial_pnl,
                        time |-> current_time, market_price |-> current_price])
            acc1 == [acc EXCEPT !.realized = RAdd(acc.realized, partial_pnl),
                                !.remaining = remaining,
                                !.hit = Append(acc.hit, tp),
                                !.exits = exits]
        IN  IF PositionClosed(remaining)
            THEN [acc1 EXCEPT !.remaining = Zero, !.closed = TRUE]
            ELSE TakeProfitLoop(i + 1, acc1)

\* the walk going on to the last sample whether or not the position closed
WalkEndsAtLastSample(closed) == idx = Len(price_data)

\* the break on fully_closed, or the samples exhausted
WalkEnds(closed) == closed \/ idx = Len(price_data)

StopLossExit ==
    /\ pc = "walk"
    /\ StopLossTriggered
    /\ realized_pnl' = RAdd(realized_pnl,
          DirectionalPnl(position_data.sentiment, R(position_data.stop_loss[1]),
                         effective_entry_price, remaining_position_size))
    /\ remaining_position_size' = Zero
    /\ exit_info' = [exit_info EXCEPT !.fully_closed = TRUE,
                                      !.exit_price = Some(R(position_data.stop_loss[1])),
                                      !.exit_reason = "Stop Loss",
                                      !.exit_time = Some(current_time)]
    /\ pc' = "final"
    /\ UNCHANGED <<position_data, price_data, idx, effective_entry_price,
                   leverage_multiplier, position_size, max_capital, min_capital,
                   unrealized_pnl, take_profits_hit, tp_percentages, result, batch, others>>

ProcessPricePoint ==
    /\ pc = "walk"
    /\ ~StopLossTriggered
    /\ LET acc0 == [realized |-> realized_pnl, remaining |-> remaining_position_size,
                    hit |-> take_profits_hit, exits |-> exit_info.partial_exits,
                    closed |-> FALSE]
           acc == IF position_data.take_profits # <<>> /\ RLt(Zero, remaining_position_size)
                  THEN TakeProfitLoop(1, acc0) ELSE acc0
           open == RLt(Zero, acc.remaining)
           upnl == DirectionalPnl(position_data.sentiment, R(current_price),
                                  effective_entry_price, acc.remaining)
           current_total_capital == RAdd(RAdd(R(initial_capital), acc.realized), upnl)
       IN  /\ realized_pnl' = acc.realized
           /\ remaining_position_size' = acc.remaining
           /\ take_profits_hit' = acc.hit
           /\ exit_info' =
                IF acc.closed
                THEN [exit_info EXCEPT !.partial_exits = acc.exits,
                                       !.fully_closed = TRUE,
                                       !.exit_reason = "All Take Profits Hit",
                                       !.exit_time = Some(current_time)]
                ELSE [exit_info EXCEPT !.partial_exits = acc.exits]
           /\ unrealized_pnl' = IF open THEN upnl ELSE unrealized_pnl
           /\ max_capital' = IF open THEN RMax(max_capital, current_total_capital) ELSE max_capital
           /\ min_capital' = IF open THEN RMin(min_capital, current_total_capital) ELSE min_capital
           /\ IF WalkEnds(acc.closed)
              THEN pc' = "final" /\ idx' = idx
              ELSE pc' = "walk" /\ idx' = idx + 1
    /\ UNCHANGED <<position_data, price_data, effective_entry_price,
                   leverage_multiplier, position_size, tp_percentages, result, batch, others>>

\* ------------------------------------------------------------ epilogue
final_price == price_data[Len(price_data)]

FinalUnrealized ==
    IF ~exit_info.fully_closed /\ RLt(Zero, remaining_position_size)
    THEN DirectionalPnl(position_data.sentiment, R(final_price),
                        effective_entry_price, remaining_position_size)
    ELSE unrealized_pnl

\* the reason of an exhausted walk chosen by counting the levels hit
FinalExitInfoByCount ==
    IF ~exit_info.fully_closed
    THEN [exit_info EXCEPT !.exit_price = Some(R(final_price)),
                           !.exit_reason =
                              IF Len(take_profits_hit) = Len(position_data.take_profits)
                              THEN "All Take Profits Hit"
                              ELSE "Position Still Open",
                           !.exit_time = Some(Len(price_data))]
    ELSE exit_info

FinalExitInfo ==
    IF ~exit_info.fully_closed
    THEN [exit_info EXCEPT !.exit_price = Some(R(final_price)),
                           !.exit_reason = "Position Still Open",
                           !.exit_time = Some(Len(price_data))]
    ELSE exit_info

TotalPnl(realized, unrealized) == RAdd(realized, unrealized)

Outcome ==
    LET upnl == FinalUnrealized
        ei == FinalExitInfo
        total_pnl == TotalPnl(realized_pnl, upnl)
    IN  [status |-> "ok", error |-> "", ticker |-> position_data.ticker,
         sentiment |-> position_data.sentiment,
         leverage |-> leverage_multiplier, entry_price |-> effective_entry_price,
         exit_price |-> ei.exit_price, exit_reason |-> ei.exit_reason,
         exit_time |-> ei.exit_time,
         final_capital |-> RAdd(R(initial_capital), total_pnl),
         realized_pnl |-> realized_pnl, unrealized_pnl |-> upnl,
         total_pnl |-> Some(total_pnl),
         roi_percent |-> RMul(RDiv(total_pnl, R(initial_capital)), R(100)),
         max_capital |-> max_capital, min_capital |-> min_capital,
         max_drawdown_percent |->
            IF RLt(Zero, max_capital)
            THEN RMul(RDiv(RSub(max_capital, min_capital), max_capital), R(100))
            ELSE Zero,
         price_points |-> Len(price_data),
         fully_closed |-> ei.fully_closed,
         remaining_position_size |-> remaining_position_size,
         position_closed_percent |->
            RMul(RDiv(RSub(position_size, remaining_position_size), position_size), R(100)),
         partial_exits |-> ei.partial_exits]

\* position_closed_percent divides by position_size
ReturnOutcome ==
    /\ pc = "final"
    /\ position_size # Zero
    /\ unrealized_pnl' = FinalUnrealized
    /\ exit_info' = FinalExitInfo
    /\ result' = Outcome
    /\ pc' = "done"
    /\ UNCHANGED <<position_data, price_data, idx, effective_entry_price,
                   leverage_multiplier, position_size, max_capital, min_capital,
                   remaining_position_size, realized_pnl, take_profits_hit,
                   tp_percentages, batch, others>>

RaiseZeroDivision ==
    /\ pc = "final"
    /\ position_size = Zero
    /\ unrealized_pnl' = FinalUnrealized
    /\ exit_info' = FinalExitInfo
    /\ result' = [NoResult EXCEPT !.status = "raised", !.error = "ZeroDivisionError"]
    /\ pc' = "done"
    /\ UNCHANGED <<position_data, price_data, idx, effective_entry_price,
                   leverage_multiplier, position_size, max_capital, min_capital,
                   remaining_position_size, realized_pnl, take_profits_hit,
                   tp_percentages, batch, others>>

Next ==
    \/ Call
    \/ InvalidSentiment
    \/ CoinNotFound
    \/ NoPriceData
    \/ OpenPosition
    \/ StopLossExit
    \/ ProcessPricePoint
    \/ ReturnOutcome
    \/ RaiseZeroDivision

Spec == Init /\ [][Next]_vars

\* the simulation of the rising-market signals alone
CallRising == CallWith(RisingSignals)

OpenRising == OpenPositionWith(RisingSeries)

NextRising ==
    \/ CallRising
    \/ OpenRising
    \/ ProcessPricePoint
    \/ ReturnOutcome
    \/ RaiseZeroDivision

SpecRising == Init /\ [][NextRising]_vars

\* the simulation of signals whose entry price is absent, zero, negative or
\* positive
EntrySignals ==
    [ticker : {"BTC"}, sentiment : {"long", "short"},
     leverage : {[kind |-> "none", val |-> 0], [kind |-> "num", val |-> 2]},
     entry_price : {None, Some(0), Some(-60000), Some(60000)},
     take_profits : SeqsUpTo(Prices, 1),
     stop_loss : StopLosses]

CallEntry == CallWith(EntrySignals)

NextEntry ==
    \/ CallEntry
    \/ OpenPosition
    \/ StopLossExit
    \/ ProcessPricePoint
    \/ ReturnOutcome

SpecEntry == Init /\ [][NextEntry]_vars

\* ------------------------------------------- simulate_all_positions
BatchSignals ==
    [ticker : {"BTC"}, sentiment : {"long", "short"},
     leverage : {[kind |-> "none", val |-> 0], [kind |-> "num", val |-> 2]},
     entry_price : {Some(60000)},
     take_profits : {<<>>}, stop_loss : {None, Some(30000)}]
    \cup {[ticker |-> "BTC", sentiment |-> "long",
           leverage |-> [kind |-> "num", val |-> 2], entry_price |-> Some(60000),
           take_profits |-> <<90000>>, stop_loss |-> Some(30000)],
          [ticker |-> "BTC", sentiment |-> "neutral",
           leverage |-> [kind |-> "none", val |-> 0], entry_price |-> Some(60000),
           take_profits |-> <<>>, stop_loss |-> None],
          [ticker |-> "XYZ", sentiment |-> "long",
           leverage |-> [kind |-> "none", val |-> 0], entry_price |-> Some(60000),
           take_profits |-> <<>>, stop_loss |-> None],
          [ticker |-> "BTC", sentiment |-> "long",
           leverage |-> [kind |-> "text", val |-> 0], entry_price |-> Some(60000),
           take_profits |-> <<>>, stop_loss |-> None],
          [ticker |-> "BTC", sentiment |-> "long",
           leverage |-> [kind |-> "num", val |-> 0], entry_price |-> Some(60000),
           take_profits |-> <<>>, stop_loss |-> None]}

BatchSeries == {<<30000>>, <<60000>>, <<90000>>, <<30000, 90000>>}

Batches == SeqsUpTo(BatchSignals, MaxBatch)

\* the early returns left out: a summary of zero positions
ZeroPositionsSummary(msg) == [NoSummary EXCEPT !.status = "ok", !.total_positions = Some(0)]

ErrorSummary(msg) == [NoSummary EXCEPT !.status = "error", !.error = msg]

RaisedSummary(exc) == [NoSummary EXCEPT !.status = "raised", !.error = exc]

\* the frame of a finished simulate_position call is discarded
ReturnFromCall ==
    /\ pc' = "idle"
    /\ position_data' = NoSignal
    /\ price_data' = <<>>
    /\ idx' = 1
    /\ effective_entry_price' = Zero
    /\ leverage_multiplier' = Zero
    /\ position_size' = Zero
    /\ max_capital' = Zero
    /\ min_capital' = Zero
    /\ remaining_position_size' = Zero
    /\ realized_pnl' = Zero
    /\ unrealized_pnl' = Zero
    /\ take_profits_hit' = <<>>
    /\ tp_percentages' = <<>>
    /\ exit_info' = NoExit
    /\ result' = NoResult

BatchCall ==
    /\ bpc = "none"
    /\ pc = "idle"
    /\ \E ta \in Batches :
         /\ tweets_analysis' = ta
         /\ IF ta = <<>>
            THEN /\ summary_result' = ErrorSummary("Aucune analyse de tweets trouvee")
                 /\ bpc' = "done"
            ELSE /\ summary_result' = summary_result
                 /\ bpc' = "loop"
    /\ simulation_results' = <<>>
    /\ total_capital' = Zero
    /\ batch_total_pnl' = Zero
    /\ position_index' = 1
    /\ UNCHANGED <<pc, position_data, price_data, idx, locals, result, price_history, others>>

\* float(leverage_info) in the progress line of a signal whose leverage is
\* not "none"
LeveragePrintRaises(leverage_info) == leverage_info.kind = "text"

PrintRaises ==
    /\ bpc = "loop"
    /\ pc = "idle"
    /\ position_index <= Len(tweets_analysis)
    /\ LeveragePrintRaises(tweets_analysis[position_index].leverage)
    /\ summary_result' = RaisedSummary("ValueError")
    /\ bpc' = "done"
    /\ UNCHANGED <<pc, position_data, price_data, idx, locals, result,
                   tweets_analysis, position_index, simulation_results, price_history,
                   total_capital, batch_total_pnl, others>>

SimulateNext ==
    /\ bpc = "loop"
    /\ pc = "idle"
    /\ position_index <= Len(tweets_analysis)
    /\ ~LeveragePrintRaises(tweets_analysis[position_index].leverage)
    /\ position_data' = tweets_analysis[position_index]
    /\ pc' = "called"
    /\ UNCHANGED <<price_data, idx, locals, result, batch, others>>

OpenBatch == OpenPositionWith(BatchSeries)

\* an exception of simulate_position leaves simulate_all_positions too
PropagateException ==
    /\ bpc = "loop"
    /\ pc = "done"
    /\ result.status = "raised"
    /\ summary_result' = RaisedSummary(result.error)
    /\ bpc' = "done"
    /\ price_history' = Append(price_history, price_data)
    /\ ReturnFromCall
    /\ UNCHANGED <<tweets_analysis, position_index, simulation_results,
                   total_capital, batch_total_pnl, others>>

\* the else branch of `if "error" not in result`
SkipsResult(r) == r.status = "error"

SkipFailed ==
    /\ bpc = "loop"
    /\ pc = "done"
    /\ result.status # "raised"
    /\ SkipsResult(result)
    /\ position_index' = position_index + 1
    /\ price_history' = Append(price_history, price_data)
    /\ ReturnFromCall
    /\ UNCHANGED <<bpc, tweets_analysis, simulation_results,
                   total_capital, batch_total_pnl, summary_result, others>>

CollectOutcome ==
    /\ bpc = "loop"
    /\ pc = "done"
    /\ result.status # "raised"
    /\ ~SkipsResult(result)
    /\ simulation_results' = Append(simulation_results, result)
    /\ total_capital' = RAdd(total_capital, R(initial_capital))
    /\ batch_total_pnl' = RAdd(batch_total_pnl, result.total_pnl[1])
    /\ position_index' = position_index + 1
    /\ price_history' = Append(price_history, price_data)
    /\ ReturnFromCall
    /\ UNCHANGED <<bpc, tweets_analysis, summary_result, others>>

NoSuccessfulPosition ==
    /\ bpc = "loop"
    /\ pc = "idle"
    /\ position_index > Len(tweets_analysis)
    /\ simulation_results = <<>>
    /\ summary_result' = ErrorSummary("Aucune position simulee avec succes")
    /\ bpc' = "done"
    /\ UNCHANGED <<pc, position_data, price_data, idx, locals, result,
                   tweets_analysis, position_index, simulation_results, price_history,
                   total_capital, batch_total_pnl, others>>

\* a zero P&L counted as a profit
IsNotLosing(r) == RLe(Zero, r.total_pnl[1])

IsProfitable(r) == RLt(Zero, r.total_pnl[1])

IsLosing(r) == RLt(r.total_pnl[1], Zero)

RECURSIVE SumOf(_, _, _)
SumOf(results, f, n) ==
    IF n = 0 THEN Zero ELSE RAdd(SumOf(results, f, n - 1), results[n][f])

\* max(results, key=roi_percent): the index kept after the first n results
RECURSIVE MaxIndex(_, _)
MaxIndex(results, n) ==
    IF n = 1 THEN 1
    ELSE LET b == MaxIndex(results, n - 1)
         IN  IF RLt(results[b].roi_percent, results[n].roi_percent) THEN n ELSE b

\* a later result replacing the kept one when it ties with it
RECURSIVE MinIndexLast(_, _)
MinIndexLast(results, n) ==
    IF n = 1 THEN 1
    ELSE LET b == MinIndexLast(results, n - 1)
         IN  IF RLe(results[n].roi_percent, results[b].roi_percent) THEN n ELSE b

\* min(results, key=roi_percent): the index kept after the first n results
RECURSIVE MinIndex(_, _)
MinIndex(results, n) ==
    IF n = 1 THEN 1
    ELSE LET b == MinIndex(results, n - 1)
         IN  IF RLt(results[n].roi_percent, results[b].roi_percent) THEN n ELSE b

Summary(results, capital, pnl) ==
    LET successful_positions == Len(results)
        profitable_positions ==
            Cardinality({k \in 1..Len(results) : IsProfitable(results[k])})
        losing_positions ==
            Cardinality({k \in 1..Len(results) : IsLosing(results[k])})
    IN  [status |-> "ok", error |-> "",
         total_positions |-> Some(successful_positions),
         total_capital |-> capital,
         total_pnl |-> pnl,
         roi_percent |->
            IF RLt(Zero, capital) THEN RMul(RDiv(pnl, capital), R(100)) ELSE Zero,
         profitable_positions |-> profitable_positions,
         losing_positions |-> losing_positions,
         win_rate |->
            IF successful_positions > 0
            THEN RMul(RDiv(R(profitable_positions), R(successful_positions)), R(100))
            ELSE Zero,
         average_roi |->
            RDiv(SumOf(results, "roi_percent", Len(results)), R(Len(results))),
         average_drawdown |->
            RDiv(SumOf(results, "max_drawdown_percent", Len(results)), R(Len(results))),
         best_trade |-> Some(results[MaxIndex(results, Len(results))]),
         worst_trade |-> Some(results[MinIndex(results, Len(results))]),
         positions |-> results]

\* the outcomes sorted in place while the extremes are looked up (here: the
\* list turned round)
SummarizeInPlace ==
    /\ bpc = "loop"
    /\ pc = "idle"
    /\ position_index > Len(tweets_analysis)
    /\ simulation_results # <<>>
    /\ summary_result' = Summary(simulation_results, total_capital, batch_total_pnl)
    /\ simulation_results' =
         [k \in 1..Len(simulation_results) |->
            simulation_results[Len(simulation_results) + 1 - k]]
    /\ bpc' = "done"
    /\ UNCHANGED <<pc, position_data, price_data, idx, locals, result,
                   tweets_analysis, position_index, price_history,
                   total_capital, batch_total_pnl, others>>

Summarize ==
    /\ bpc = "loop"
    /\ pc = "idle"
    /\ position_index > Len(tweets_analysis)
    /\ simulation_results # <<>>
    /\ summary_result' = Summary(simulation_results, total_capital, batch_total_pnl)
    /\ bpc' = "done"
    /\ UNCHANGED <<pc, position_data, price_data, idx, locals, result,
                   tweets_analysis, position_index, simulation_results, price_history,
                   total_capital, batch_total_pnl, others>>

NextBatch ==
    \/ BatchCall
    \/ PrintRaises
    \/ SimulateNext
    \/ InvalidSentiment
    \/ CoinNotFound
    \/ NoPriceData
    \/ OpenBatch
    \/ StopLossExit
    \/ ProcessPricePoint
    \/ ReturnOutcome
    \/ RaiseZeroDivision
    \/ PropagateException
    \/ SkipFailed
    \/ CollectOutcome
    \/ NoSuccessfulPosition
    \/ Summarize

SpecBatch == Init /\ [][NextBatch]_vars

\* ------------------------------------------- concurrent invocations
\* One invocation runs alone and its outcome is kept in solo; then two
\* invocations run with their steps interleaved.  Every name simulate_position
\* assigns is a local of the call, so an invocation that is not running has
\* its whole frame parked and gets it back when it runs again.
ConcSignals ==
    [ticker : {"BTC"}, sentiment : {"long"},
     leverage : {[kind |-> "num", val |-> 2]}, entry_price : {Some(60000)},
     take_profits : {<<>>, <<90000, 30000>>}, stop_loss : {Some(30000)}]
    \cup
    [ticker : {"BTC"}, sentiment : {"short"},
     leverage : {[kind |-> "num", val |-> 2]}, entry_price : {Some(60000)},
     take_profits : {<<30000>>}, stop_loss : {None, Some(90000)}]

ConcSeries == {<<30000>>, <<60000, 90000>>, <<90000, 30000>>}

CallConc ==
    /\ CallWith(ConcSignals)
    /\ solo.status = "done" \/ parked = IdleFrame

OpenConc == OpenPositionWith(ConcSeries)

FinishSolo ==
    /\ pc = "done"
    /\ solo.status = "none"
    /\ solo' = [status |-> "done", position_data |-> position_data,
                price_data |-> price_data, result |-> result]
    /\ ReturnFromCall
    /\ UNCHANGED <<batch, parked, calc, mgr, pipe>>

Frame ==
    [pc |-> pc, position_data |-> position_data, price_data |-> price_data,
     idx |-> idx, effective_entry_price |-> effective_entry_price,
     leverage_multiplier |-> leverage_multiplier,
     position_size |-> position_size, max_capital |-> max_capital,
     min_capital |-> min_capital,
     remaining_position_size |-> remaining_position_size,
     realized_pnl |-> realized_pnl, unrealized_pnl |-> unrealized_pnl,
     take_profits_hit |-> take_profits_hit, tp_percentages |-> tp_percentages,
     exit_info |-> exit_info, result |-> result]

\* take_profits_hit kept on the simulator object instead of in the call
ResumeSharingHits(f) ==
    /\ pc' = f.pc
    /\ position_data' = f.position_data
    /\ price_data' = f.price_data
    /\ idx' = f.idx
    /\ effective_entry_price' = f.effective_entry_price
    /\ leverage_multiplier' = f.leverage_multiplier
    /\ position_size' = f.position_size
    /\ max_capital' = f.max_capital
    /\ min_capital' = f.min_capital
    /\ remaining_position_size' = f.remaining_position_size
    /\ realized_pnl' = f.realized_pnl
    /\ unrealized_pnl' = f.unrealized_pnl
    /\ take_profits_hit' = take_profits_hit
    /\ tp_percentages' = f.tp_percentages
    /\ exit_info' = f.exit_info
    /\ result' = f.result

Resume(f) ==
    /\ pc' = f.pc
    /\ position_data' = f.position_data
    /\ price_data' = f.price_data
    /\ idx' = f.idx
    /\ effective_entry_price' = f.effective_entry_price
    /\ leverage_multiplier' = f.leverage_multiplier
    /\ position_size' = f.position_size
    /\ max_capital' = f.max_capital
    /\ min_capital' = f.min_capital
    /\ remaining_position_size' = f.remaining_position_size
    /\ realized_pnl' = f.realized_pnl
    /\ unrealized_pnl' = f.unrealized_pnl
    /\ take_profits_hit' = f.take_profits_hit
    /\ tp_percentages' = f.tp_percentages
    /\ exit_info' = f.exit_info
    /\ result' = f.result

\* the scheduler lets the other invocation run
Switch ==
    /\ solo.status = "done"
    /\ Frame # parked
    /\ parked' = Frame
    /\ Resume(parked)
    /\ UNCHANGED <<batch, solo, calc, mgr, pipe>>

NextConc ==
    \/ CallConc
    \/ NoPriceData
    \/ OpenConc
    \/ StopLossExit
    \/ ProcessPricePoint
    \/ ReturnOutcome
    \/ FinishSolo
    \/ Switch

SpecConc == Init /\ [][NextConc]_vars

\* ------------------------------------- calculate_liquidation_price
LiqEntries == {1, 50000, 60000}

LiqLeverages == {RDiv(R(n), R(2)) : n \in 0..(2 * MaxLeverage)}

\* the whole capital lost at liquidation
LiquidationAtTotalLoss(entry_price, position_type, leverage) ==
    LET liquidation_threshold == RDiv(R(1), leverage)
    IN  IF position_type = "LONG"
        THEN RMul(entry_price, RSub(R(1), liquidation_threshold))
        ELSE RMul(entry_price, RAdd(R(1), liquidation_threshold))

calculate_liquidation_price(entry_price, position_type, leverage) ==
    LET liquidation_threshold == RDiv(LiquidationLoss, leverage)
    IN  IF position_type = "LONG"
        THEN RMul(entry_price, RSub(R(1), liquidation_threshold))
        ELSE RMul(entry_price, RAdd(R(1), liquidation_threshold))

CallLiquidation ==
    /\ liq.status \in {"none", "returned", "raised"}
    /\ liq_prev.status = "none"
    /\ \E e \in LiqEntries, t \in {"LONG", "SHORT"}, l \in LiqLeverages :
         liq' = [status |-> "called", entry_price |-> R(e), position_type |-> t,
                 leverage |-> l, value |-> None]
    /\ liq_prev' = liq
    /\ UNCHANGED <<simulation, batch, conc, mgr, pipe>>

\* 0.9 / leverage
RaiseLiquidation ==
    /\ liq.status = "called"
    /\ liq.leverage = Zero
    /\ liq' = [liq EXCEPT !.status = "raised"]
    /\ UNCHANGED <<simulation, batch, conc, mgr, pipe, liq_prev>>

ReturnLiquidation ==
    /\ liq.status = "called"
    /\ liq.leverage # Zero
    /\ liq' = [liq EXCEPT !.status = "returned",
                          !.value = Some(calculate_liquidation_price(
                                       liq.entry_price, liq.position_type, liq.leverage))]
    /\ UNCHANGED <<simulation, batch, conc, mgr, pipe, liq_prev>>

NextLiq ==
    \/ CallLiquidation
    \/ RaiseLiquidation
    \/ ReturnLiquidation

SpecLiq == Init /\ [][NextLiq]_vars

\* ------------------------------------------------- CryptoAPIManager
PrimaryArgs == {"coincap", "coingecko", "CoinGecko", "binance"}

ManagerHours == {12, 24, 48, 100}

default_simulation_hours == 24

Lower(str) == IF str = "CoinGecko" THEN "coingecko" ELSE str

\* APIProvider(primary_api.lower()), CoinCap when the name is unknown
ToProvider(primary_api) ==
    IF Lower(primary_api) \in {"coincap", "coingecko"}
    THEN Lower(primary_api) ELSE "coincap"

\* the second positional argument bound by each simulate_position signature
BindArguments(api_provider, second) ==
    IF api_provider = "coincap"
    THEN [capital |-> second, simulation_hours |-> default_simulation_hours]
    ELSE [capital |-> initial_capital, simulation_hours |-> second]

NewManager ==
    /\ manager.status = "none"
    /\ \E primary_api \in PrimaryArgs, mock_mode \in BOOLEAN :
         manager' = [status |-> "ready", primary_api |-> ToProvider(primary_api),
                     mock_mode |-> mock_mode]
    /\ UNCHANGED <<simulation, batch, conc, calc, pipe, simulator>>

ManagerSimulate ==
    /\ manager.status = "ready"
    /\ simulator.pc = "idle"
    /\ \E simulation_hours \in ManagerHours,
          api_provider \in {None, Some("coincap"), Some("coingecko")},
          entry_price \in {None, Some(60000)} :
         LET provider == IF api_provider = None THEN manager.primary_api
                         ELSE api_provider[1]
             bound == BindArguments(provider, simulation_hours)
         IN  simulator' = [pc |-> "called", api_provider |-> provider,
                           entry_price |-> entry_price,
                           requested |-> simulation_hours,
                           capital |-> bound.capital,
                           simulation_hours |-> bound.simulation_hours,
                           out |-> NoOut]
    /\ UNCHANGED <<simulation, batch, conc, calc, pipe, manager>>

ErrorOut == [NoOut EXCEPT !.status = "error"]

\* no price data can come back only from the network
PriceDataMissing == ~manager.mock_mode

SimulateWithCoinCap ==
    /\ simulator.pc = "called"
    /\ simulator.api_provider = "coincap"
    /\ \/ /\ ~Truthy(simulator.entry_price)
          /\ simulator' = [simulator EXCEPT !.pc = "returned", !.out = ErrorOut]
       \/ /\ Truthy(simulator.entry_price)
          /\ PriceDataMissing
          /\ simulator' = [simulator EXCEPT !.pc = "returned", !.out = ErrorOut]
       \/ /\ Truthy(simulator.entry_price)
          /\ simulator' = [simulator EXCEPT
                             !.pc = "returned",
                             !.out = [status |-> "ok",
                                      capital |-> simulator.capital,
                                      simulation_hours |-> simulator.simulation_hours,
                                      api_source |-> "COINCAP"]]
    /\ UNCHANGED <<simulation, batch, conc, calc, pipe, manager>>

SimulateWithCoinGecko ==
    /\ simulator.pc = "called"
    /\ simulator.api_provider = "coingecko"
    /\ \/ /\ PriceDataMissing
          /\ simulator' = [simulator EXCEPT !.pc = "returned", !.out = ErrorOut]
       \/ simulator' = [simulator EXCEPT
                          !.pc = "returned",
                          !.out = [status |-> "ok",
                                   capital |-> initial_capital,
                                   simulation_hours |-> simulator.simulation_hours,
                                   api_source |-> "COINGECKO"]]
    /\ UNCHANGED <<simulation, batch, conc, calc, pipe, manager>>

NextManager ==
    \/ NewManager
    \/ ManagerSimulate
    \/ SimulateWithCoinCap
    \/ SimulateWithCoinGecko

SpecManager == Init /\ [][NextManager]_vars

\* ------------------------------------------------------ run_pipeline
max_page_size == 20

Users == {"12345", "@satoshi"}

Limits == (-1)..MaxLimit

IntMin(a, b) == IF a <= b THEN a ELSE b

IntMax(a, b) == IF a >= b THEN a ELSE b

\* handle.lstrip("@"); digits are the id, any other handle is hashed (mock)
handle_to_id(handle) ==
    IF handle = "12345" THEN "12345"
    ELSE IF handle = "@satoshi" THEN "1671109028"
    ELSE "3382208256"

\* s[:n]
SliceTo(s, n) ==
    IF n >= 0 THEN SubSeq(s, 1, IntMin(n, Len(s)))
    ELSE SubSeq(s, 1, IntMax(Len(s) + n, 0))

\* f"mock_cursor_{page_size}"
MockCursor(page_size) == <<"mock", "cursor", page_size>>

\* int(cursor.split('_')[-1])
CursorIndex(cursor) == cursor[Len(cursor)]

\* md5(f"{user_id}:{idx}")[:16], distinct for distinct idx of the page
MockTweet(user_id, n) == [id_str |-> <<user_id, n>>, number |-> n]

\* a full page whatever the limit
UserTweetsFullPage(user_id, limit, cursor) ==
    LET page_size == max_page_size
        start == IF cursor # None THEN CursorIndex(cursor[1]) ELSE 0
    IN  [tweets |-> [i \in 1..page_size |-> MockTweet(user_id, start + i)],
         next_cursor |-> IF page_size >= limit THEN None
                         ELSE Some(MockCursor(page_size))]

user_tweets(user_id, limit, cursor) ==
    LET page_size == IntMin(max_page_size, IntMax(1, limit))
        start == IF cursor # None THEN CursorIndex(cursor[1]) ELSE 0
        page == [i \in 1..page_size |-> MockTweet(user_id, start + i)]
    IN  [tweets |-> SliceTo(page, limit),
         next_cursor |-> IF page_size >= limit THEN None
                         ELSE Some(MockCursor(page_size))]

RunPipeline ==
    /\ pipe.pc = "idle"
    /\ \E user \in Users, limit \in Limits :
         pipe' = [pc |-> "collecting", user |-> user,
                  resolved |-> handle_to_id(user), limit |-> limit,
                  collected |-> <<>>, cursor |-> None, batches |-> 0,
                  processed |-> None]
    /\ UNCHANGED <<simulation, batch, conc, calc, mgr>>

\* len(collected) < limit is false
LoopExit ==
    /\ pipe.pc = "collecting"
    /\ ~(Len(pipe.collected) < pipe.limit)
    /\ pipe' = [pipe EXCEPT !.pc = "analysing"]
    /\ UNCHANGED <<simulation, batch, conc, calc, mgr>>

\* one iteration of the while loop
FetchBatch ==
    /\ pipe.pc = "collecting"
    /\ Len(pipe.collected) < pipe.limit
    /\ LET fetched == user_tweets(pipe.resolved, pipe.limit - Len(pipe.collected),
                                  pipe.cursor)
           posts == fetched.tweets
       IN  IF posts = <<>>
           THEN pipe' = [pipe EXCEPT !.pc = "analysing", !.batches = @ + 1]
           ELSE pipe' = [pipe EXCEPT
                           !.collected = pipe.collected \o posts,
                           !.cursor = fetched.next_cursor,
                           !.batches = @ + 1,
                           !.pc = IF fetched.next_cursor = None
                                  THEN "analysing" ELSE "collecting"]
    /\ UNCHANGED <<simulation, batch, conc, calc, mgr>>

AnalyzePosts ==
    /\ pipe.pc = "analysing"
    /\ pipe' = [pipe EXCEPT !.pc = "returned",
                            !.processed = Some(Len(SliceTo(pipe.collected, pipe.limit)))]
    /\ UNCHANGED <<simulation, batch, conc, calc, mgr>>

\* ollama.generate raises for a post
AnalysisRaises ==
    /\ pipe.pc = "analysing"
    /\ SliceTo(pipe.collected, pipe.limit) # <<>>
    /\ pipe' = [pipe EXCEPT !.pc = "raised"]
    /\ UNCHANGED <<simulation, batch, conc, calc, mgr>>

NextPipeline ==
    \/ RunPipeline
    \/ LoopExit
    \/ FetchBatch
    \/ AnalyzePosts
    \/ AnalysisRaises

SpecPipeline == Init /\ [][NextPipeline]_vars

\* run_pipeline is sequential code: a step that can be taken is taken
FairPipeline == SpecPipeline /\ WF_vars(NextPipeline)

\* ============================================================ properties
Sign(sentiment) == IF sentiment = "long" THEN 1 ELSE -1

Opened == pc \in {"walk", "final"} \/ (pc = "done" /\ price_data # <<>>)

Accepted ==
    /\ position_data.sentiment \in {"long", "short"}
    /\ get_coin_id_from_symbol(position_data.ticker) # None

RECURSIVE SumField(_, _, _)
SumField(exits, f, n) ==
    IF n = 0 THEN Zero ELSE RAdd(SumField(exits, f, n - 1), exits[n][f])

\* C1: in any step of the walk where the current price meets both the
\* stop-loss condition and the trigger condition of a take-profit level not
\* yet hit, the stop-loss closes the whole remaining position (remaining
\* size 0, exit reason Stop Loss) and the step adds no partial-exit record.
C1_Case ==
    /\ pc = "walk"
    /\ Truthy(position_data.stop_loss)
    /\ StopLossCondition(position_data.sentiment, current_price,
                         position_data.stop_loss[1])
    /\ \E i \in 1..Len(position_data.take_profits) :
         /\ ~InSeq(position_data.take_profits[i], take_profits_hit)
         /\ TpCondition(position_data.sentiment, current_price,
                        position_data.take_profits[i])

C1_StopLossPriority ==
    [][C1_Case =>
         /\ remaining_position_size' = Zero
         /\ exit_info'.exit_reason = "Stop Loss"
         /\ exit_info'.partial_exits = exit_info.partial_exits]_vars

\* C1 restricted to the signals whose leverage converts to a positive number
C1_PositiveLeverage ==
    [][C1_Case /\ RLt(Zero, leverage_multiplier) =>
         /\ remaining_position_size' = Zero
         /\ exit_info'.exit_reason = "Stop Loss"
         /\ exit_info'.partial_exits = exit_info.partial_exits]_vars

\* C2: when the stop-loss fires before any take-profit level was hit, at
\* whichever sample, the outcome has exit_reason Stop Loss, exit_price =
\* stop_loss, exit_time = that sample's timestamp, no partial exits and
\* total_pnl = sign * (stop_loss - entry) * (initial_capital * leverage / entry).
FirstStopIndex ==
    CHOOSE j \in 1..Len(price_data) :
      /\ StopLossCondition(position_data.sentiment, price_data[j],
                           position_data.stop_loss[1])
      /\ \A i \in 1..(j - 1) :
           ~StopLossCondition(position_data.sentiment, price_data[i],
                              position_data.stop_loss[1])

C2_Case ==
    /\ pc = "done"
    /\ result.status = "ok"
    /\ result.exit_reason = "Stop Loss"
    /\ result.partial_exits = <<>>

C2_StopLossOutcome ==
    C2_Case =>
      /\ result.exit_price = Some(R(position_data.stop_loss[1]))
      /\ result.exit_time = Some(FirstStopIndex)
      /\ result.total_pnl =
           Some(RMul(RMul(R(Sign(position_data.sentiment)),
                          RSub(R(position_data.stop_loss[1]), result.entry_price)),
                     RDiv(RMul(R(initial_capital), result.leverage),
                          result.entry_price)))

\* C3: with k >= 1 listed levels and a price series that triggers every one
\* of them while never meeting the stop-loss condition, the exit fractions of
\* the recorded partial exits sum to 1 and the remaining size ends at 0.
AllLevelsTriggered ==
    \A i \in 1..Len(position_data.take_profits) :
      \E j \in 1..Len(price_data) :
        TpCondition(position_data.sentiment, price_data[j],
                    position_data.take_profits[i])

NoStopLossInSeries ==
    Truthy(position_data.stop_loss) =>
      \A j \in 1..Len(price_data) :
        ~StopLossCondition(position_data.sentiment, price_data[j],
                           position_data.stop_loss[1])

C3_Case ==
    /\ pc = "done"
    /\ Accepted
    /\ price_data # <<>>
    /\ Len(position_data.take_profits) >= 1
    /\ AllLevelsTriggered
    /\ NoStopLossInSeries

C3_SizingInvariant ==
    C3_Case =>
      /\ result.status = "ok"
      /\ SumField(result.partial_exits, "exit_percentage",
                  Len(result.partial_exits)) = R(1)
      /\ result.remaining_position_size = Zero

\* C4: a long signal with strictly ascending take-profit levels above the
\* entry price and a stop-loss below it, over a rising series that starts at
\* the entry price and ends above the highest level, closes every level in
\* list order with realized_pnl > 0, remaining size 0 and exit reason
\* All Take Profits Hit.
C4_Case ==
    /\ pc = "done"
    /\ Accepted
    /\ position_data.sentiment = "long"
    /\ price_data # <<>>
    /\ Len(position_data.take_profits) >= 1
    /\ R(price_data[1]) = effective_entry_price
    /\ \A i \in 1..Len(position_data.take_profits) :
         /\ position_data.take_profits[i] > price_data[1]
         /\ i > 1 => position_data.take_profits[i - 1] < position_data.take_profits[i]
    /\ Truthy(position_data.stop_loss)
    /\ position_data.stop_loss[1] < price_data[1]
    /\ \A j \in 2..Len(price_data) : price_data[j - 1] <= price_data[j]
    /\ price_data[Len(price_data)] >
         position_data.take_profits[Len(position_data.take_profits)]

C4_AllTakeProfits ==
    C4_Case =>
      /\ result.status = "ok"
      /\ [i \in 1..Len(result.partial_exits) |-> result.partial_exits[i].tp_level]
           = position_data.take_profits
      /\ RLt(Zero, result.realized_pnl)
      /\ result.remaining_position_size = Zero
      /\ result.exit_reason = "All Take Profits Hit"

\* C5: a signal whose leverage is non-numeric, zero or negative is simulated
\* with leverage 1.0: the multiplier and the outcome's leverage field are 1.0
\* and the position size is initial_capital / effective_entry_price.
C5_Case ==
    /\ Opened
    /\ \/ position_data.leverage.kind = "text"
       \/ position_data.leverage.kind = "num" /\ position_data.leverage.val <= 0

C5_LeverageNormalized ==
    C5_Case =>
      /\ leverage_multiplier = R(1)
      /\ position_size = RDiv(R(initial_capital), effective_entry_price)
      /\ (pc = "done" /\ result.status = "ok") => result.leverage = R(1)

\* C6: for any long/short signal with a non-empty price series (take-profit
\* list empty or not, stop-loss missing or not, leverage zero included) the
\* simulation runs to completion and returns an outcome; it never raises.
C6_NeverRaises ==
    (pc = "done" /\ Accepted /\ price_data # <<>>) => result.status = "ok"

\* C7: simulating a valid signal against an empty price series never raises
\* and returns an outcome whose total_pnl is 0 and which carries an explicit
\* no-price-data marker.
C7_Case ==
    /\ pc = "done"
    /\ Accepted
    /\ price_data = <<>>

C8_PartialExitSizing ==
    Opened =>
      LET exits == exit_info.partial_exits
          k == Len(position_data.take_profits)
          sumpnl == SumField(exits, "pnl", Len(exits))
          closed == SumField(exits, "exit_size", Len(exits))
      IN  /\ \A j \in 1..Len(exits) :
               LET before == RSub(position_size, SumField(exits, "exit_size", j - 1))
               IN  /\ exits[j].exit_size = RMin(RDiv(position_size, R(k)), before)
                   /\ exits[j].exit_price = exits[j].tp_level
                   /\ exits[j].pnl =
                        RMul(RMul(R(Sign(position_data.sentiment)),
                                  RSub(R(exits[j].tp_level), effective_entry_price)),
                             exits[j].exit_size)
          /\ realized_pnl =
               IF exit_info.exit_reason = "Stop Loss"
               THEN RAdd(sumpnl,
                         RMul(RMul(R(Sign(position_data.sentiment)),
                                   RSub(R(position_data.stop_loss[1]), effective_entry_price)),
                              RSub(position_size, closed)))
               ELSE sumpnl

C8_Witness ==
    /\ Opened
    /\ Len(exit_info.partial_exits) = 2
    /\ exit_info.partial_exits[1].time < exit_info.partial_exits[2].time
    /\ realized_pnl # Zero

\* C9: no take-profit level appears in more than one partial-exit record and
\* the number of partial exits never exceeds the number of listed levels.
C9_LevelsHitOnce ==
    LET exits == exit_info.partial_exits IN
      /\ \A i, j \in 1..Len(exits) : i # j => exits[i].tp_level # exits[j].tp_level
      /\ Len(exits) <= Len(position_data.take_profits)

C9_Witness ==
    /\ pc = "final"
    /\ Len(exit_info.partial_exits) >= 1
    /\ exit_info.partial_exits[1].time < idx
    /\ RLt(Zero, remaining_position_size)
    /\ TpCondition(position_data.sentiment, price_data[idx],
                   exit_info.partial_exits[1].tp_level)

\* C10: in every state of the walk 0 <= remaining_size <= original size,
\* remaining_size starts at the full original size and never increases from
\* one step to the next.
C10_RemainingSize ==
    /\ [](Opened => /\ RLe(Zero, remaining_position_size)
                    /\ RLe(remaining_position_size, position_size))
    /\ [][pc = "called" /\ pc' = "walk" => remaining_position_size' = position_size']_vars
    /\ [][Opened => RLe(remaining_position_size', remaining_position_size)]_vars

\* C10 restricted to the signals whose leverage converts to a positive number
C10_PositiveLeverage ==
    /\ [](Opened /\ RLt(Zero, leverage_multiplier) =>
            /\ RLe(Zero, remaining_position_size)
            /\ RLe(remaining_position_size, position_size))
    /\ [][pc = "called" /\ pc' = "walk" => remaining_position_size' = position_size']_vars
    /\ [][Opened => RLe(remaining_position_size', remaining_position_size)]_vars

\* C11: in any step of the walk in which neither the stop-loss fires nor a
\* take-profit level is triggered (no level not yet hit is reached by the
\* current price), realized_pnl, the remaining size, the sequence of hit
\* levels and the partial-exit records are left unchanged.
LevelReached(sentiment, price, level) ==
    IF sentiment = "long" THEN price >= level ELSE price <= level

C11_Case ==
    /\ pc = "walk"
    /\ ~StopLossTriggered
    /\ \A i \in 1..Len(position_data.take_profits) :
         \/ InSeq(position_data.take_profits[i], take_profits_hit)
         \/ ~LevelReached(position_data.sentiment, current_price,
                          position_data.take_profits[i])

C11_RealizedFrame ==
    [][C11_Case =>
         /\ realized_pnl' = realized_pnl
         /\ remaining_position_size' = remaining_position_size
         /\ take_profits_hit' = take_profits_hit
         /\ exit_info'.partial_exits = exit_info.partial_exits
         /\ exit_info'.exit_reason = exit_info.exit_reason]_vars

C11_Witness ==
    /\ pc = "walk"
    /\ idx = 2
    /\ position_data.take_profits # <<>>
    /\ take_profits_hit = <<>>
    /\ realized_pnl = Zero
    /\ remaining_position_size = position_size
    /\ unrealized_pnl # Zero
    /\ min_capital # max_capital

\* C12: with an empty take_profits list no partial exit is ever recorded and
\* the position ends only by stop-loss or by exhausting the price series:
\* the exit reason is Stop Loss or Position Still Open, never
\* All Take Profits Hit.
C12_Case ==
    /\ Opened
    /\ position_data.take_profits = <<>>

C12_NoTakeProfits ==
    C12_Case =>
      /\ exit_info.partial_exits = <<>>
      /\ take_profits_hit = <<>>
      /\ exit_info.exit_reason # "All Take Profits Hit"
      /\ pc = "done" => exit_info.exit_reason \in {"Stop Loss", "Position Still Open"}
      /\ (pc = "done" /\ result.status = "ok") =>
           /\ result.partial_exits = <<>>
           /\ result.exit_reason \in {"Stop Loss", "Position Still Open"}

C12_Witness ==
    /\ C12_Case
    /\ pc = "done"
    /\ result.status = "ok"
    /\ Truthy(position_data.stop_loss)
    /\ Len(price_data) = 2
    /\ result.exit_reason = "Position Still Open"
    /\ result.total_pnl # Some(Zero)

\* C13: when the walk exhausts every price sample without the position being
\* fully closed, the outcome has exit_reason Position Still Open, exit_price
\* = the last sample's price, exit_time = the last sample's timestamp,
\* unrealized_pnl = sign * (last_price - entry_price) * remaining_size,
\* total_pnl = realized_pnl + unrealized_pnl and roi_percent = total_pnl /
\* initial_capital * 100.
C13_Case ==
    /\ pc = "done"
    /\ result.status = "ok"
    /\ ~result.fully_closed

C13_Finalized ==
    /\ result.exit_reason = "Position Still Open"
    /\ result.exit_price = Some(R(price_data[Len(price_data)]))
    /\ result.exit_time = Some(Len(price_data))
    /\ result.unrealized_pnl =
         RMul(RMul(R(Sign(position_data.sentiment)),
                   RSub(R(price_data[Len(price_data)]), result.entry_price)),
              result.remaining_position_size)
    /\ result.total_pnl = Some(RAdd(result.realized_pnl, result.unrealized_pnl))
    /\ result.roi_percent =
         RMul(RDiv(result.total_pnl[1], R(initial_capital)), R(100))

C13_OpenFinalization == C13_Case => C13_Finalized

\* C13 restricted to the signals whose leverage converts to a positive number
C13_PositiveLeverage ==
    (C13_Case /\ RLt(Zero, leverage_multiplier)) => C13_Finalized

\* C14: the simulation uses the signal's entry_price when it is present and
\* > 0, and otherwise (absent, zero or negative) the price of the first
\* sample; the position size and the outcome's entry price are computed from
\* that effective entry price.
C14_Case == Opened

C14_Expected ==
    IF position_data.entry_price # None /\ position_data.entry_price[1] > 0
    THEN R(position_data.entry_price[1])
    ELSE R(price_data[1])

C14_EffectiveEntry ==
    C14_Case =>
      /\ effective_entry_price = C14_Expected
      /\ position_size =
           RDiv(RMul(R(initial_capital), leverage_multiplier), C14_Expected)
      /\ (pc = "done" /\ result.status = "ok") => result.entry_price = C14_Expected

\* C14 restricted to the signals whose entry price is absent, zero or positive
C14_NonNegativeEntry ==
    (C14_Case /\ (position_data.entry_price = None \/ position_data.entry_price[1] >= 0))
      => /\ effective_entry_price = C14_Expected
         /\ position_size =
              RDiv(RMul(R(initial_capital), leverage_multiplier), C14_Expected)

\* C15: a long and a short signal that agree on entry price and leverage,
\* simulated over the same price series, have total_pnl of equal magnitude
\* and opposite sign.
C15_Case ==
    /\ bpc = "done"
    /\ summary_result.status = "ok"
    /\ Len(tweets_analysis) = 2
    /\ tweets_analysis[1].sentiment = "long"
    /\ tweets_analysis[2].sentiment = "short"
    /\ tweets_analysis[1].entry_price = tweets_analysis[2].entry_price
    /\ tweets_analysis[1].leverage = tweets_analysis[2].leverage
    /\ Len(summary_result.positions) = 2
    /\ price_history[1] = price_history[2]

C15_Opposite ==
    summary_result.positions[1].total_pnl[1]
      = RSub(Zero, summary_result.positions[2].total_pnl[1])

C15_DirectionSymmetry == C15_Case => C15_Opposite

\* C15 (amended): a long and a short signal that agree on entry price and
\* leverage, simulated over the same price series on which neither position
\* has an exit (no stop-loss exit and no partial exit, both still open at the
\* end of the series), have total_pnl of equal magnitude and opposite sign.
C15_NoExit ==
    \A k \in 1..2 :
      /\ summary_result.positions[k].exit_reason = "Position Still Open"
      /\ summary_result.positions[k].partial_exits = <<>>

C15_OpenSymmetry == (C15_Case /\ C15_NoExit) => C15_Opposite

C15_Witness ==
    /\ C15_Case
    /\ C15_NoExit
    /\ Len(price_history[1]) = 2
    /\ tweets_analysis[1].leverage.kind = "num"
    /\ summary_result.positions[1].total_pnl[1] # Zero

\* C16: for every non-empty outcome list the summary is the reference
\* reduction of the list: total_positions its length, total_capital the sum
\* of the outcomes' initial capital, total_pnl the sum of their total_pnl,
\* roi_percent = total_pnl / total_capital * 100, profitable / losing the
\* numbers of outcomes with total_pnl > 0 / < 0 (zero in neither), win_rate =
\* profitable / total * 100, average_roi and average_drawdown the means.
C16_Case ==
    /\ bpc = "done"
    /\ summary_result.status = "ok"

C16_Reference(outcomes) ==
    LET n == Len(outcomes)
        pnl == [k \in 1..n |-> [v |-> outcomes[k].total_pnl[1]]]
        total == SumField(pnl, "v", n)
        capital == R(n * initial_capital)
        wins == Cardinality({k \in 1..n : pnl[k].v.n > 0})
        losses == Cardinality({k \in 1..n : pnl[k].v.n < 0})
    IN  [total_positions |-> Some(n),
         total_capital |-> capital,
         total_pnl |-> total,
         roi_percent |-> RMul(RDiv(total, capital), R(100)),
         profitable_positions |-> wins,
         losing_positions |-> losses,
         win_rate |-> RDiv(R(wins * 100), R(n)),
         average_roi |-> RDiv(SumField(outcomes, "roi_percent", n), R(n)),
         average_drawdown |-> RDiv(SumField(outcomes, "max_drawdown_percent", n), R(n))]

C16_Aggregation ==
    C16_Case =>
      LET ref == C16_Reference(summary_result.positions) IN
        /\ summary_result.positions # <<>>
        /\ \A f \in DOMAIN ref : summary_result[f] = ref[f]
        /\ summary_result.profitable_positions + summary_result.losing_positions
             <= summary_result.total_positions[1]

C16_Witness ==
    /\ C16_Case
    /\ Len(summary_result.positions) = 2
    /\ summary_result.positions[1].total_pnl = Some(Zero)
    /\ summary_result.losing_positions = 1
    /\ summary_result.profitable_positions = 0

\* C17: best_trade / worst_trade are the outcomes with the maximum / minimum
\* roi_percent of the batch, and among outcomes that tie on roi_percent the
\* one occurring first in input order is chosen, for both.
C17_FirstBest(outcomes) ==
    CHOOSE k \in 1..Len(outcomes) :
      /\ \A j \in 1..Len(outcomes) : RLe(outcomes[j].roi_percent, outcomes[k].roi_percent)
      /\ \A j \in 1..(k - 1) : RLt(outcomes[j].roi_percent, outcomes[k].roi_percent)

C17_FirstWorst(outcomes) ==
    CHOOSE k \in 1..Len(outcomes) :
      /\ \A j \in 1..Len(outcomes) : RLe(outcomes[k].roi_percent, outcomes[j].roi_percent)
      /\ \A j \in 1..(k - 1) : RLt(outcomes[k].roi_percent, outcomes[j].roi_percent)

C17_BestWorstTrade ==
    (bpc = "done" /\ summary_result.status = "ok") =>
      LET outcomes == summary_result.positions IN
        /\ summary_result.best_trade = Some(outcomes[C17_FirstBest(outcomes)])
        /\ summary_result.worst_trade = Some(outcomes[C17_FirstWorst(outcomes)])

C17_Witness ==
    /\ bpc = "done"
    /\ summary_result.status = "ok"
    /\ Len(summary_result.positions) = 2
    /\ summary_result.positions[1].roi_percent = summary_result.positions[2].roi_percent
    /\ summary_result.positions[1] # summary_result.positions[2]
    /\ summary_result.best_trade = Some(summary_result.positions[1])
    /\ summary_result.worst_trade = Some(summary_result.positions[1])

\* C18: aggregating zero outcomes (an empty signal list, or a batch in which
\* every signal failed) does not raise; it returns a summary with
\* total_positions = 0 and an explicit empty/error flag.
C18_Failed(k) ==
    \/ tweets_analysis[k].sentiment \notin {"long", "short"}
    \/ get_coin_id_from_symbol(tweets_analysis[k].ticker) = None
    \/ k <= Len(price_history) /\ price_history[k] = <<>>

C18_Case ==
    /\ bpc = "done"
    /\ \A k \in 1..Len(tweets_analysis) : C18_Failed(k)

C19_Case ==
    /\ bpc = "done"
    /\ \E k \in 1..Len(price_history) : C18_Failed(k)

C19_Kept == {k \in 1..Len(tweets_analysis) : ~C18_Failed(k)}

C19_Rank(k) == Cardinality({j \in C19_Kept : j <= k})

C19_Continued ==
    /\ summary_result.status # "raised"
    /\ Len(price_history) = Len(tweets_analysis)
    /\ Len(simulation_results) = Cardinality(C19_Kept)
    /\ \A k \in C19_Kept :
         /\ simulation_results[C19_Rank(k)].ticker = tweets_analysis[k].ticker
         /\ simulation_results[C19_Rank(k)].sentiment = tweets_analysis[k].sentiment
    /\ total_capital = R(initial_capital * Cardinality(C19_Kept))
    /\ batch_total_pnl =
         SumField([k \in 1..Len(simulation_results) |->
                     [v |-> simulation_results[k].total_pnl[1]]],
                  "v", Len(simulation_results))
    /\ IF C19_Kept = {}
       THEN summary_result.status = "error"
       ELSE /\ summary_result.status = "ok"
            /\ summary_result.total_positions = Some(Cardinality(C19_Kept))
            /\ summary_result.positions = simulation_results

C19_SkippedAndContinued == C19_Case => C19_Continued

\* C19 restricted to the batches in which no signal has a non-numeric or a
\* zero leverage
C19_ParsedLeverage ==
    (C19_Case /\ \A k \in 1..Len(tweets_analysis) :
                   /\ tweets_analysis[k].leverage.kind # "text"
                   /\ tweets_analysis[k].leverage # [kind |-> "num", val |-> 0])
      => C19_Continued

\* C20: aggregation is idempotent and free of side effects: the aggregation
\* step leaves the outcome list and the accumulated totals as they were, the
\* summary's positions are that list, and aggregating again the list it left
\* behind yields the summary already returned.
C20_Case ==
    /\ bpc = "done"
    /\ summary_result.status = "ok"

C21_Case ==
    /\ solo.status = "done"
    /\ pc = "done"
    /\ position_data = solo.position_data
    /\ price_data = solo.price_data

C22_Case == liq.status = "returned"

C22_LiquidationPrice ==
    C22_Case =>
      LET e == liq.entry_price
          l == liq.leverage
      IN  /\ liq.position_type = "LONG" =>
               /\ RMul(liq.value[1], R(10 * l.n)) = RMul(e, R(10 * l.n - 9 * l.d))
               /\ RLt(Zero, l) => RLt(liq.value[1], e)
          /\ liq.position_type = "SHORT" =>
               /\ RMul(liq.value[1], R(10 * l.n)) = RMul(e, R(10 * l.n + 9 * l.d))
               /\ RLt(Zero, l) => RLt(e, liq.value[1])
          /\ (/\ liq_prev.status = "returned"
              /\ liq_prev.entry_price = e
              /\ liq_prev.position_type = liq.position_type
              /\ liq_prev.leverage = l) => liq_prev.value = liq.value

C22_Witness ==
    /\ C22_Case
    /\ liq.entry_price = R(50000)
    /\ liq.position_type = "LONG"
    /\ liq.leverage = R(10)
    /\ liq.value = Some(R(45500))
    /\ liq_prev.status = "returned"
    /\ liq_prev.value = liq.value

\* C23: a fully closed position carries no unrealized P&L: when the outcome's
\* exit reason is Stop Loss or All Take Profits Hit, the reported
\* unrealized_pnl is 0 and total_pnl equals realized_pnl.
C23_Case ==
    /\ pc = "done"
    /\ result.status = "ok"
    /\ result.exit_reason \in {"Stop Loss", "All Take Profits Hit"}

C23_ClosedNoUnrealized ==
    C23_Case =>
      /\ result.remaining_position_size = Zero
      /\ result.unrealized_pnl = Zero
      /\ result.total_pnl = Some(result.realized_pnl)

\* C24: the exit reason All Take Profits Hit is reported only when every
\* listed take-profit level has a partial-exit record: the position is never
\* declared closed by take-profits while a listed level is still un-hit.
C24_Case ==
    /\ pc = "done"
    /\ result.status = "ok"
    /\ result.exit_reason = "All Take Profits Hit"

C24_EveryLevelHit ==
    C24_Case =>
      \A k \in 1..Len(position_data.take_profits) :
        \E j \in 1..Len(result.partial_exits) :
          result.partial_exits[j].tp_level = position_data.take_profits[k]

\* C25: every successful outcome has a defined exit: exit_reason is one of
\* Stop Loss, All Take Profits Hit, Position Still Open, exit_price and
\* exit_time are both non-null for each of the three, and fully_closed is
\* true exactly when the reason is Stop Loss or All Take Profits Hit.
C25_Case == pc = "done" /\ result.status = "ok"

C25_DefinedExit ==
    C25_Case =>
      /\ result.exit_reason \in
           {"Stop Loss", "All Take Profits Hit", "Position Still Open"}
      /\ result.exit_price # None
      /\ result.exit_time # None
      /\ result.fully_closed <=>
           result.exit_reason \in {"Stop Loss", "All Take Profits Hit"}

\* C25 without the exit price
C25_ReasonAndTime ==
    C25_Case =>
      /\ result.exit_reason \in
           {"Stop Loss", "All Take Profits Hit", "Position Still Open"}
      /\ result.exit_time # None
      /\ result.fully_closed <=>
           result.exit_reason \in {"Stop Loss", "All Take Profits Hit"}
      /\ result.exit_reason # "All Take Profits Hit" => result.exit_price # None

\* C26: once the position is closed the walk stops and nothing later is
\* recorded: partial-exit times are non-decreasing in list order, every one
\* is at most exit_time (and before it when the exit is a stop-loss), the
\* walk never looks at a sample after the closing one, and from the closing
\* sample to the outcome realized_pnl, unrealized_pnl, max_capital,
\* min_capital and the partial-exit list stay as they are.
C26_Closed == Opened /\ exit_info.fully_closed

C26_Ordered(exits) ==
    \A j \in 1..Len(exits) : \A k \in j..Len(exits) : exits[j].time <= exits[k].time

C26_StopsAtClose ==
    /\ [](C26_Closed =>
            /\ pc \in {"final", "done"}
            /\ exit_info.exit_time = Some(idx)
            /\ C26_Ordered(exit_info.partial_exits)
            /\ \A j \in 1..Len(exit_info.partial_exits) :
                 /\ exit_info.partial_exits[j].time <= idx
                 /\ exit_info.exit_reason = "Stop Loss" =>
                      exit_info.partial_exits[j].time < idx)
    /\ []((pc = "done" /\ result.status = "ok") =>
            /\ C26_Ordered(result.partial_exits)
            /\ \A j \in 1..Len(result.partial_exits) :
                 result.partial_exits[j].time <= result.exit_time[1])
    /\ [][(C26_Closed /\ pc = "final") =>
            /\ idx' = idx
            /\ realized_pnl' = realized_pnl
            /\ unrealized_pnl' = unrealized_pnl
            /\ max_capital' = max_capital
            /\ min_capital' = min_capital
            /\ exit_info' = exit_info
            /\ result'.status = "ok" =>
                 /\ result'.realized_pnl = realized_pnl
                 /\ result'.unrealized_pnl = unrealized_pnl
                 /\ result'.max_capital = max_capital
                 /\ result'.min_capital = min_capital
                 /\ result'.partial_exits = exit_info.partial_exits
                 /\ result'.exit_time = Some(idx)]_vars

C26_Witness ==
    /\ pc = "done"
    /\ result.status = "ok"
    /\ result.fully_closed
    /\ Len(result.partial_exits) = 2
    /\ result.exit_time = Some(1)
    /\ Len(price_data) = 2
    /\ price_data[2] # price_data[1]

\* C27: drawdown tracking brackets the result: in every outcome
\* min_capital <= initial_capital <= max_capital, max_drawdown_percent >= 0,
\* and the final capital (initial_capital + total_pnl) lies within
\* [min_capital, max_capital], also when the position ends by stop-loss or
\* by its last take-profit.
C27_Case == pc = "done" /\ result.status = "ok"

C27_Bracket ==
    C27_Case =>
      /\ RLe(result.min_capital, R(initial_capital))
      /\ RLe(R(initial_capital), result.max_capital)
      /\ RLe(Zero, result.max_drawdown_percent)
      /\ result.final_capital = RAdd(R(initial_capital), result.total_pnl[1])
      /\ RLe(result.min_capital, result.final_capital)
      /\ RLe(result.final_capital, result.max_capital)

\* C27 without the final capital
C27_InitialBracketed ==
    C27_Case =>
      /\ RLe(result.min_capital, R(initial_capital))
      /\ RLe(R(initial_capital), result.max_capital)
      /\ RLe(Zero, result.max_drawdown_percent)
      /\ result.final_capital = RAdd(R(initial_capital), result.total_pnl[1])

\* C27 for a position still open at the end of the series
C27_OpenBracketed ==
    (C27_Case /\ ~result.fully_closed /\ RLt(Zero, result.remaining_position_size)) =>
      /\ RLe(result.min_capital, result.final_capital)
      /\ RLe(result.final_capital, result.max_capital)

\* C28: CryptoAPIManager.simulate_position honours its simulation_hours
\* argument for both providers: whichever simulator is selected, the position
\* is simulated over the requested number of hours with the default capital
\* of 100.
C28_Case == simulator.pc = "returned" /\ simulator.out.status = "ok"

C28_HonoursHours ==
    C28_Case =>
      /\ simulator.out.simulation_hours = simulator.requested
      /\ simulator.out.capital = initial_capital

\* C28 for the CoinGecko simulator alone
C28_CoinGeckoHonours ==
    (C28_Case /\ simulator.api_provider = "coingecko") =>
      /\ simulator.out.simulation_hours = simulator.requested
      /\ simulator.out.capital = initial_capital

\* C29: the collection loop of run_pipeline terminates for every limit >= 0
\* and never gathers more than limit posts: it stops when limit posts are
\* collected, when a batch is empty or when no next cursor is returned, and
\* the reported processed count is at most limit.
C29_Case == pipe.pc # "idle" /\ pipe.limit >= 0

C29_LoopTerminates ==
    /\ [](C29_Case =>
            /\ Len(pipe.collected) <= pipe.limit
            /\ pipe.pc \in {"analysing", "returned", "raised"} =>
                 \/ Len(pipe.collected) = pipe.limit
                 \/ pipe.cursor = None
            /\ pipe.pc = "returned" =>
                 /\ pipe.processed = Some(Len(pipe.collected))
                 /\ pipe.processed[1] <= pipe.limit)
    /\ (pipe.pc = "collecting" /\ pipe.limit >= 0) ~> (pipe.pc = "analysing")

C29_Witness ==
    /\ pipe.pc = "returned"
    /\ pipe.limit = MaxLimit
    /\ pipe.batches = 3
    /\ pipe.processed = Some(MaxLimit)

\* C30: pagination in run_pipeline never collects a post twice: the posts
\* gathered across successive user_tweets batches have pairwise distinct ids.
C30_Case == pipe.pc \in {"analysing", "returned"}

C30_DistinctIds ==
    C30_Case =>
      \A j \in 1..Len(pipe.collected) : \A k \in 1..Len(pipe.collected) :
        pipe.collected[j].id_str = pipe.collected[k].id_str => j = k

\* C30 for at most two batches
C30_TwoBatchesDistinct ==
    (C30_Case /\ pipe.batches <= 2) =>
      \A j \in 1..Len(pipe.collected) : \A k \in 1..Len(pipe.collected) :
        pipe.collected[j].id_str = pipe.collected[k].id_str => j = k
====
